---------------------------- MODULE Spec2Model ----------------------------
(***************************************************************************)
(* A model of the Letter Boxed solver (src/src/letterboxedsolver.cpp,      *)
(* letterbox.h, word.h): the LetterBox puzzle model, the filtered word     *)
(* table, the input loops of main, and the multithreaded backtracking      *)
(* search of generateSolutions / generateSolutionsRec.                     *)
(*                                                                         *)
(* A char is a one-character string; a std::string is a sequence of chars. *)
(* A pointer to a wall is the index of the wall in letterWalls.            *)
(***************************************************************************)
EXTENDS Integers, Sequences, FiniteSets, Bags, TLC

(***************************************************************************)
(* Program constants.                                                      *)
(***************************************************************************)
kNumWalls == 4
kMinWordLength == 3

(***************************************************************************)
(* Bounds of the model.                                                    *)
(***************************************************************************)
\* the dictionary file read by a run is a prefix of DictionaryFile of at
\* most this many lines
MaxDictLines == 6
\* the words given to canMakeWord have at most this many chars
MaxWordLen == 4
\* the numbers typed at the word-count prompt range over -1..MaxNInput
MaxNInput == 3
\* the puzzles given to the LetterBox constructor alone have at most this
\* many letters on a wall
MaxWallLen == 3

(***************************************************************************)
(* Inputs.                                                                 *)
(***************************************************************************)
\* lines the user may type at the letters prompt
LetterInputs ==
    { <<>>,
      <<"a", "b", "c">>,
      <<"A", "B", "C", "D">>,
      <<"a", "b", "c", "d", "E", "F", "G", "H">> }

\* the lines of the dictionary file
DictionaryFile ==
    << <<"A", "B", "C", "D">>,
       <<"B", "C", "D", "A">>,
       <<"B", "C", "D", "A">>,
       <<"A", "C", "E", "G", "B">>,
       <<"B", "D", "F", "D">>,
       <<"B", "D", "F", "H">>,
       <<"H", "A", "C", "E", "G">> >>

Dictionaries ==
    { SubSeq(DictionaryFile, 1, k) :
        k \in 0..(IF MaxDictLines < Len(DictionaryFile)
                  THEN MaxDictLines ELSE Len(DictionaryFile)) }

\* the chars of the words given to canMakeWord
WordAlphabet == {"A", "B", "C", "E", "X", "a"}
Words == UNION { [1..n -> WordAlphabet] : n \in 0..MaxWordLen }

NInputs == (0 - 1)..MaxNInput

(***************************************************************************)
(* Characters and strings.                                                 *)
(***************************************************************************)
LowerCase == <<"a", "b", "c", "d", "e", "f", "g", "h", "i", "j", "k", "l",
               "m", "n", "o", "p", "x">>
UpperCase == <<"A", "B", "C", "D", "E", "F", "G", "H", "I", "J", "K", "L",
               "M", "N", "O", "P", "X">>

Range(s) == { s[i] : i \in 1..Len(s) }

\* toupper(c)
ToUpper(c) ==
    IF \E i \in 1..Len(LowerCase) : LowerCase[i] = c
    THEN UpperCase[CHOOSE i \in 1..Len(LowerCase) : LowerCase[i] = c]
    ELSE c

\* position of a char in the collating order
Ord(c) ==
    IF \E i \in 1..Len(UpperCase) : UpperCase[i] = c
    THEN CHOOSE i \in 1..Len(UpperCase) : UpperCase[i] = c
    ELSE Len(UpperCase) + (CHOOSE i \in 1..Len(LowerCase) : LowerCase[i] = c)

RECURSIVE Ascending(_)
Ascending(S) ==
    IF S = {} THEN <<>>
    ELSE LET m == CHOOSE x \in S : \A y \in S : Ord(x) <= Ord(y)
         IN  <<m>> \o Ascending(S \ {m})

Reverse(s) == [i \in 1..Len(s) |-> s[Len(s) + 1 - i]]

\* The order in which a range-for visits a std::unordered_set<char> is
\* unspecified; the model lets it be ascending or descending.
IterationOrders(S) == { Ascending(S), Reverse(Ascending(S)) }

(***************************************************************************)
(* LetterBox.                                                              *)
(***************************************************************************)
\* the object before its constructor has run
NoLetterBox == [letterWalls |-> <<>>, letterToWall |-> <<>>, letters |-> {}]

\* NewLetterBox with kNumWalls for lettersPerWord in the wall of a letter
NewLetterBoxWrongWall(str) ==
    LET lettersPerWord == Len(str) \div kNumWalls
        walls == [wallNum \in 1..kNumWalls |->
                    [i \in 1..lettersPerWord |->
                        str[(wallNum - 1) * lettersPerWord + i]]]
        used  == 1..(kNumWalls * lettersPerWord)
        first(c) == CHOOSE idx \in used :
                        /\ str[idx] = c
                        /\ \A j \in used : str[j] = c => idx <= j
    IN  [letterWalls  |-> walls,
         letterToWall |-> [c \in { str[idx] : idx \in used } |->
                              ((first(c) - 1) \div kNumWalls) + 1],
         letters      |-> { str[idx] : idx \in used }]

\* LetterBox::LetterBox(letters)
NewLetterBox(str) ==
    LET lettersPerWord == Len(str) \div kNumWalls
        walls == [wallNum \in 1..kNumWalls |->
                    [i \in 1..lettersPerWord |->
                        str[(wallNum - 1) * lettersPerWord + i]]]
        used  == 1..(kNumWalls * lettersPerWord)
        first(c) == CHOOSE idx \in used :
                        /\ str[idx] = c
                        /\ \A j \in used : str[j] = c => idx <= j
    IN  [letterWalls  |-> walls,
         letterToWall |-> [c \in { str[idx] : idx \in used } |->
                              ((first(c) - 1) \div lettersPerWord) + 1],
         letters      |-> { str[idx] : idx \in used }]

\* LetterBox::getLetters
GetLetters(box) == box.letters

\* OnSameWall that finds no two letters on the same wall
OnSameWallNever(box, letter1, letter2) ==
    IF letter1 \notin DOMAIN box.letterToWall THEN FALSE
    ELSE IF letter2 \notin DOMAIN box.letterToWall THEN FALSE
    ELSE FALSE

\* LetterBox::onSameWall
OnSameWall(box, letter1, letter2) ==
    IF letter1 \notin DOMAIN box.letterToWall THEN FALSE
    ELSE IF letter2 \notin DOMAIN box.letterToWall THEN FALSE
    ELSE box.letterToWall[letter1] = box.letterToWall[letter2]

\* LetterBox::contains
Contains(box, letter) == Cardinality(box.letters \cap {letter}) > 0

\* CanMakeWord with <= for < in the test of the length
CanMakeWordOffByOne(box, word) ==
    IF Len(word) <= kMinWordLength THEN FALSE
    ELSE \A i \in 1..Len(word) :
            ~ (\/ ~ Contains(box, word[i])
               \/ (i > 1 /\ OnSameWall(box, word[i - 1], word[i])))

\* LetterBox::canMakeWord
CanMakeWord(box, word) ==
    IF Len(word) < kMinWordLength THEN FALSE
    ELSE \A i \in 1..Len(word) :
            ~ (\/ ~ Contains(box, word[i])
               \/ (i > 1 /\ OnSameWall(box, word[i - 1], word[i])))

\* LetterBox::numLetters
NumLetters(box) == Cardinality(box.letters)

(***************************************************************************)
(* Word.                                                                   *)
(***************************************************************************)
\* NewWord leaving the first char of the text out of the count
NewWordSkippingFirst(str) ==
    [content |-> str,
     nUniqueLetters |-> Cardinality(Range(SubSeq(str, 2, Len(str))))]

\* NewWord counting the chars of the text, equal or not
NewWordCountingChars(str) == [content |-> str, nUniqueLetters |-> Len(str)]

\* Word::Word
NewWord(str) == [content |-> str, nUniqueLetters |-> Cardinality(Range(str))]

\* Word::size
WordSize(word) == Len(word.content)

\* the bounds test of Word::operator[] (index counts from 0)
WordIndexInRange(word, index) ==
    ~ (index < 0 \/ index >= Len(word.content))

\* Word::operator[] on an index in range
WordAt(word, index) == word.content[index + 1]

(***************************************************************************)
(* The word table: std::unordered_map<char, std::unordered_set<Word>>.     *)
(* An entry is the sequence of its Words, no two with the same content.    *)
(***************************************************************************)
\* InsertWord without the test for an equal Word
InsertWordNoDedupe(entry, word) == Append(entry, word)

\* std::unordered_set<Word>::insert, Word equality being equality of content
InsertWord(entry, word) ==
    IF \E i \in 1..Len(entry) : entry[i].content = word.content
    THEN entry
    ELSE Append(entry, word)

\* wordsStartingWith[word[0]].insert(Word(word))
TableInsert(table, str) ==
    LET key == str[1]
    IN  IF key \in DOMAIN table
        THEN [table EXCEPT ![key] = InsertWord(@, NewWord(str))]
        ELSE table @@ (key :> InsertWord(<<>>, NewWord(str)))

\* the getline loop of buildFilteredWordList over the lines from..Len(file)
RECURSIVE BuildFrom(_, _, _, _)
BuildFrom(file, from, box, table) ==
    IF from > Len(file) THEN table
    ELSE IF ~ CanMakeWord(box, file[from])
         THEN BuildFrom(file, from + 1, box, table)
         ELSE BuildFrom(file, from + 1, box, TableInsert(table, file[from]))

\* buildFilteredWordList
BuildFilteredWordList(file, box) == BuildFrom(file, 1, box, <<>>)

(***************************************************************************)
(* State.                                                                  *)
(***************************************************************************)
VARIABLES
    pcMain,             \* where main is
    dictionary,         \* the lines of the dictionary file
    input,              \* the line last read by getLettersFromUser
    letterBox,          \* main's LetterBox
    wordsStartingWith,  \* main's WordTable
    nInput,             \* the int last read by getNumWordsFromUser
    nWords,             \* main's nWords
    order,              \* the order the spawning loop visits getLetters()
    threads,            \* generateSolutions' threads, by their start letter
    joined,             \* how many of them the join loop has joined
    stack,              \* per thread, the frames of generateSolutionsRec
    result,             \* per thread, its Solution result
    solutions,          \* main's std::vector<Solution>
    solutionsLock,      \* the owner of the mutex
    exited              \* exit(0) was called

vars == <<pcMain, dictionary, input, letterBox, wordsStartingWith, nInput,
          nWords, order, threads, joined, stack, result, solutions,
          solutionsLock, exited>>

mainVars == <<pcMain, dictionary, input, letterBox, wordsStartingWith,
              nInput, nWords, order, threads, joined>>

\* mainVars but the word table
mainOtherVars == <<pcMain, dictionary, input, letterBox, nInput, nWords,
                   order, threads, joined>>

NoThread == "none"

Init ==
    /\ pcMain = "getLetters"
    /\ dictionary \in Dictionaries
    /\ input \in LetterInputs
    /\ letterBox = NoLetterBox
    /\ wordsStartingWith = <<>>
    /\ nInput = 0
    /\ nWords = 0
    /\ order = <<>>
    /\ threads = <<>>
    /\ joined = 0
    /\ stack = <<>>
    /\ result = <<>>
    /\ solutions = <<>>
    /\ solutionsLock = NoThread
    /\ exited = FALSE

(***************************************************************************)
(* main: the input loops, the LetterBox and the word table.                *)
(***************************************************************************)
\* the for loop of getLettersFromUser that upper-cases the input
ToUpperString(str) == [i \in 1..Len(str) |-> ToUpper(str[i])]

\* getLettersFromUser: one more turn of its while loop
GetLettersReprompt ==
    /\ ~ exited
    /\ pcMain = "getLetters"
    /\ Len(input) % kNumWalls # 0
    /\ input' \in LetterInputs
    /\ UNCHANGED <<pcMain, dictionary, letterBox, wordsStartingWith, nInput,
                   nWords, order, threads, joined, stack, result, solutions,
                   solutionsLock, exited>>

\* getLettersFromUser returns and main constructs letterBox
GetLettersReturn ==
    /\ ~ exited
    /\ pcMain = "getLetters"
    /\ ~ (Len(input) % kNumWalls # 0)
    /\ letterBox' = NewLetterBox(ToUpperString(input))
    /\ pcMain' = "buildList"
    /\ UNCHANGED <<dictionary, input, wordsStartingWith, nInput, nWords,
                   order, threads, joined, stack, result, solutions,
                   solutionsLock, exited>>

\* main calls buildFilteredWordList, then getNumWordsFromUser reads an int
BuildList ==
    /\ ~ exited
    /\ pcMain = "buildList"
    /\ wordsStartingWith' = BuildFilteredWordList(dictionary, letterBox)
    /\ nInput' \in NInputs
    /\ pcMain' = "getNumWords"
    /\ UNCHANGED <<dictionary, input, letterBox, nWords, order, threads,
                   joined, stack, result, solutions, solutionsLock, exited>>

\* int n compared with an unsigned int u: n is converted to unsigned, so a
\* negative n becomes n + 2^32, which is above every u < 2^31
UnsignedLess(n, u) == IF n < 0 THEN FALSE ELSE n < u

\* UnsignedGreater with >= for >
UnsignedGreaterOrEqual(n, u) == IF n < 0 THEN TRUE ELSE n >= u

UnsignedGreater(n, u) == IF n < 0 THEN TRUE ELSE n > u

\* the condition of the while loop of getNumWordsFromUser
NumWordsRejected(box, n) ==
    LET minWords == 1
        maxWords == NumLetters(box) \div kMinWordLength
    IN  UnsignedLess(n, minWords) \/ UnsignedGreater(n, maxWords)

\* getNumWordsFromUser: one more turn of its while loop
GetNumWordsReprompt ==
    /\ ~ exited
    /\ pcMain = "getNumWords"
    /\ NumWordsRejected(letterBox, nInput)
    /\ nInput' \in NInputs
    /\ UNCHANGED <<pcMain, dictionary, input, letterBox, wordsStartingWith,
                   nWords, order, threads, joined, stack, result, solutions,
                   solutionsLock, exited>>

\* getNumWordsFromUser returns and main calls generateSolutions
GetNumWordsReturn ==
    /\ ~ exited
    /\ pcMain = "getNumWords"
    /\ ~ NumWordsRejected(letterBox, nInput)
    /\ nWords' = nInput
    /\ order' \in IterationOrders(GetLetters(letterBox))
    /\ pcMain' = "spawn"
    /\ UNCHANGED <<dictionary, input, letterBox, wordsStartingWith, nInput,
                   threads, joined, stack, result, solutions, solutionsLock,
                   exited>>

(***************************************************************************)
(* generateSolutions: the spawning loop and the join loop.                 *)
(***************************************************************************)
\* a frame of generateSolutionsRec; pc is where the call is, todo the
\* indices of the entry of `last` the for loop has yet to visit, word the
\* text of the word of the current turn of the loop, slot the end of
\* solutions as push_back read it
NewFrame(n, last, remaining) ==
    [nWords |-> n, last |-> last, remaining |-> remaining,
     pc |-> "entry", todo |-> {}, word |-> <<>>, slot |-> 0]

\* Solution result(nWords)
NewResult(n) == [i \in 1..n |-> <<>>]

\* the loop body: a thread is started on the next letter
Spawn ==
    /\ ~ exited
    /\ pcMain = "spawn"
    /\ Len(threads) < Len(order)
    /\ LET ch == order[Len(threads) + 1]
       IN  /\ threads' = Append(threads, ch)
           /\ stack' = stack @@
                  (ch :> <<NewFrame(nWords, ch, GetLetters(letterBox))>>)
           /\ result' = result @@ (ch :> NewResult(nWords))
    /\ UNCHANGED <<pcMain, dictionary, input, letterBox, wordsStartingWith,
                   nInput, nWords, order, joined, solutions, solutionsLock,
                   exited>>

\* the spawning loop ends
SpawnDone ==
    /\ ~ exited
    /\ pcMain = "spawn"
    /\ ~ (Len(threads) < Len(order))
    /\ pcMain' = "join"
    /\ UNCHANGED <<dictionary, input, letterBox, wordsStartingWith, nInput,
                   nWords, order, threads, joined, stack, result, solutions,
                   solutionsLock, exited>>

\* ThreadFinished that does not look at the thread
ThreadFinishedUnchecked(t) == TRUE

\* a thread has run its lambda to the end
ThreadFinished(t) == stack[t] = <<>>

\* t.join() on the next thread
Join ==
    /\ ~ exited
    /\ pcMain = "join"
    /\ joined < Len(threads)
    /\ ThreadFinished(threads[joined + 1])
    /\ joined' = joined + 1
    /\ UNCHANGED <<pcMain, dictionary, input, letterBox, wordsStartingWith,
                   nInput, nWords, order, threads, stack, result, solutions,
                   solutionsLock, exited>>

\* the join loop ends and generateSolutions returns
Return ==
    /\ ~ exited
    /\ pcMain = "join"
    /\ ~ (joined < Len(threads))
    /\ pcMain' = "returned"
    /\ UNCHANGED <<dictionary, input, letterBox, wordsStartingWith, nInput,
                   nWords, order, threads, joined, stack, result, solutions,
                   solutionsLock, exited>>

(***************************************************************************)
(* generateSolutionsRec, run by thread t.                                  *)
(***************************************************************************)
Running(t) == t \in DOMAIN stack /\ stack[t] # <<>>
Top(t) == stack[t][Len(stack[t])]
Pop(t) == [stack EXCEPT ![t] = SubSeq(@, 1, Len(@) - 1)]
SetTop(t, frame) == [stack EXCEPT ![t][Len(stack[t])] = frame]

\* IsSolution without the test of remaining
IsSolutionUnchecked(frame) == TRUE

\* the test that ends the recursion with a solution
IsSolution(frame) == frame.remaining = {}

\* generateSolutionsRec up to its for loop: the frames the call leaves on
\* the stack, none if it returns at once, one waiting for the mutex if
\* there is a solution to append, one at the start of the loop otherwise
Called(frame) ==
    IF frame.nWords = 0
    THEN IF IsSolution(frame)
         THEN << [frame EXCEPT !.pc = "lock"] >>
         ELSE <<>>
    ELSE IF frame.last \notin DOMAIN wordsStartingWith
         THEN <<>>
         ELSE << [frame EXCEPT
                    !.pc = "loop",
                    !.todo = 1..Len(wordsStartingWith[frame.last])] >>

\* TableAfterLookup of a lookup with operator[], which inserts a missing key
TableAfterLookupInserting(table, key) ==
    IF key \in DOMAIN table THEN table ELSE table @@ (key :> <<>>)

\* the table after wordsStartingWith.count(key) and wordsStartingWith.at(key)
TableAfterLookup(table, key) == table

\* the table after generateSolutionsRec has run up to its for loop
TableAfterCall(table, frame) ==
    IF frame.nWords = 0 THEN table ELSE TableAfterLookup(table, frame.last)

\* the thread starts to run: its lambda calls generateSolutionsRec
Enter(t) ==
    /\ ~ exited
    /\ Running(t)
    /\ Top(t).pc = "entry"
    /\ stack' = [stack EXCEPT ![t] = Called(Top(t))]
    /\ wordsStartingWith' = TableAfterCall(wordsStartingWith, Top(t))
    /\ UNCHANGED <<mainOtherVars, result, solutions, solutionsLock, exited>>

\* Pruned with >= for >
PrunedOffByOne(frame, word) ==
    frame.nWords = 1 /\ Cardinality(frame.remaining) >= word.nUniqueLetters

\* the test that skips a last word with too few letters
Pruned(frame, word) ==
    frame.nWords = 1 /\ Cardinality(frame.remaining) > word.nUniqueLetters

\* EraseLetters that erases every letter
EraseLettersAll(remaining, word) == {}

\* the loop of newRemaining.erase(ch) over the chars of the word
EraseLetters(remaining, word) == remaining \ Range(word.content)

\* StoreWord with nWords - 1 for result.size() - nWords
StoreWordFromTheEnd(res, n, word) == [res EXCEPT ![n] = word.content]

\* result[result.size() - nWords] = word.content
StoreWord(res, n, word) == [res EXCEPT ![(Len(res) - n) + 1] = word.content]

\* LastIndex with word.size() for word.size() - 1
LastIndexOffByOne(word) == WordSize(word)

\* word.size() - 1, the index given to Word::operator[]
LastIndex(word) == WordSize(word) - 1

\* one turn of the for loop over the words starting with `last`, up to the
\* for loop of the recursive call, or the end of the loop and the return
Iterate(t) ==
    /\ ~ exited
    /\ Running(t)
    /\ Top(t).pc = "loop"
    /\ IF Top(t).todo = {}
       THEN /\ stack' = Pop(t)
            /\ UNCHANGED <<result, exited, wordsStartingWith>>
       ELSE \E i \in Top(t).todo :
              LET word == wordsStartingWith[Top(t).last][i]
                  rest == [Top(t) EXCEPT !.todo = @ \ {i},
                                         !.word = word.content]
              IN  IF Pruned(Top(t), word)
                  THEN /\ stack' = SetTop(t, rest)
                       /\ UNCHANGED <<result, exited, wordsStartingWith>>
                  ELSE IF ~ WordIndexInRange(word, LastIndex(word))
                  THEN /\ exited' = TRUE
                       /\ result' = [result EXCEPT
                              ![t] = StoreWord(@, Top(t).nWords, word)]
                       /\ stack' = SetTop(t, rest)
                       /\ UNCHANGED wordsStartingWith
                  ELSE LET callee == NewFrame(Top(t).nWords - 1,
                                       WordAt(word, LastIndex(word)),
                                       EraseLetters(Top(t).remaining, word))
                       IN  /\ result' = [result EXCEPT
                                  ![t] = StoreWord(@, Top(t).nWords, word)]
                           /\ stack' = [SetTop(t, rest) EXCEPT
                                  ![t] = @ \o Called(callee)]
                           /\ wordsStartingWith' =
                                  TableAfterCall(wordsStartingWith, callee)
                           /\ UNCHANGED exited
    /\ UNCHANGED <<mainOtherVars, solutions, solutionsLock>>

\* LockFree of a mutex that excludes nobody
LockFreeAlways == TRUE

\* the mutex can be locked
LockFree == solutionsLock = NoThread

\* Acquire that does not wait for the mutex
AcquireUnguarded(t) ==
    /\ ~ exited
    /\ Running(t)
    /\ Top(t).pc = "lock"
    /\ solutionsLock' = t
    /\ stack' = SetTop(t, [Top(t) EXCEPT !.pc = "push"])
    /\ UNCHANGED <<mainVars, result, solutions, exited>>

\* std::lock_guard<std::mutex> lg(solutionsLock)
Acquire(t) ==
    /\ ~ exited
    /\ Running(t)
    /\ Top(t).pc = "lock"
    /\ LockFree
    /\ solutionsLock' = t
    /\ stack' = SetTop(t, [Top(t) EXCEPT !.pc = "push"])
    /\ UNCHANGED <<mainVars, result, solutions, exited>>

\* solutions.push_back(result) reads where the vector ends
PushBackBegin(t) ==
    /\ ~ exited
    /\ Running(t)
    /\ Top(t).pc = "push"
    /\ stack' = SetTop(t, [Top(t) EXCEPT !.pc = "write",
                                         !.slot = Len(solutions)])
    /\ UNCHANGED <<mainVars, result, solutions, solutionsLock, exited>>

\* solutions.push_back(result) copies result to the end it read and moves
\* the end behind it
PushBackEnd(t) ==
    /\ ~ exited
    /\ Running(t)
    /\ Top(t).pc = "write"
    /\ solutions' = SubSeq(solutions, 1, Top(t).slot) \o <<result[t]>>
    /\ stack' = SetTop(t, [Top(t) EXCEPT !.pc = "unlock"])
    /\ UNCHANGED <<mainVars, result, solutionsLock, exited>>

\* Release that returns with the mutex still locked
ReleaseKeepingLock(t) ==
    /\ ~ exited
    /\ Running(t)
    /\ Top(t).pc = "unlock"
    /\ stack' = Pop(t)
    /\ UNCHANGED <<mainVars, result, solutions, solutionsLock, exited>>

\* lg goes out of scope and the call returns
Release(t) ==
    /\ ~ exited
    /\ Running(t)
    /\ Top(t).pc = "unlock"
    /\ solutionsLock' = NoThread
    /\ stack' = Pop(t)
    /\ UNCHANGED <<mainVars, result, solutions, exited>>

Worker(t) ==
    \/ Enter(t)
    \/ Iterate(t)
    \/ Acquire(t)
    \/ PushBackBegin(t)
    \/ PushBackEnd(t)
    \/ Release(t)

\* the steps of main before generateSolutions
Prepare ==
    \/ GetLettersReprompt
    \/ GetLettersReturn
    \/ BuildList
    \/ GetNumWordsReprompt
    \/ GetNumWordsReturn

\* the steps of generateSolutions on main's thread
Orchestrate ==
    \/ Spawn
    \/ SpawnDone
    \/ Join
    \/ Return

\* a step of generateSolutions, on any thread
Search == Orchestrate \/ \E t \in DOMAIN stack : Worker(t)

Next == Prepare \/ Search

Spec == Init /\ [][Next]_vars

(***************************************************************************)
(* main up to the word table, on a dictionary of one line: canMakeWord     *)
(* applied to every word of Words in every puzzle of LetterInputs.         *)
(***************************************************************************)
InitWord ==
    /\ pcMain = "getLetters"
    /\ dictionary \in { <<w>> : w \in Words }
    /\ input \in LetterInputs
    /\ letterBox = NoLetterBox
    /\ wordsStartingWith = <<>>
    /\ nInput = 0
    /\ nWords = 0
    /\ order = <<>>
    /\ threads = <<>>
    /\ joined = 0
    /\ stack = <<>>
    /\ result = <<>>
    /\ solutions = <<>>
    /\ solutionsLock = NoThread
    /\ exited = FALSE

NextWord == GetLettersReprompt \/ GetLettersReturn \/ BuildList

SpecWord == InitWord /\ [][NextWord]_vars

(***************************************************************************)
(* main up to the word table, on the puzzles of BoxInputs: the LetterBox   *)
(* constructor applied to strings of every length up to kNumWalls *        *)
(* MaxWallLen, in and out of order, with and without a repeated letter.    *)
(***************************************************************************)
\* str with the chars at i and j exchanged
Swapped(str, i, j) == [str EXCEPT ![i] = str[j], ![j] = str[i]]

\* str with the char at j replaced by the char at i
Repeated(str, i, j) == [str EXCEPT ![j] = str[i]]

\* the first n letters of the alphabet
FirstLetters(alphabet, n) == SubSeq(alphabet, 1, n)

BoxInputs ==
    UNION { LET upper == FirstLetters(UpperCase, n)
                lower == FirstLetters(LowerCase, n)
            IN  {upper, lower}
                \cup { Swapped(upper, i, j) : i, j \in 1..n }
                \cup { Repeated(upper, i, j) : i, j \in 1..n }
                \cup { Repeated(lower, i, j) : i, j \in 1..n }
          : n \in 0..(kNumWalls * MaxWallLen) }

\* the puzzle and the word list of the worked example
FixtureLetters ==
    <<"A", "B", "C", "D", "E", "F", "G", "H", "I", "J", "K", "L">>
FixtureDictionary ==
    << <<"A", "B", "D">>, <<"D", "G", "J">>, <<"J", "C", "K">> >>

InitBox ==
    /\ pcMain = "getLetters"
    /\ dictionary = FixtureDictionary
    /\ input \in BoxInputs
    /\ letterBox = NoLetterBox
    /\ wordsStartingWith = <<>>
    /\ nInput = 0
    /\ nWords = 0
    /\ order = <<>>
    /\ threads = <<>>
    /\ joined = 0
    /\ stack = <<>>
    /\ result = <<>>
    /\ solutions = <<>>
    /\ solutionsLock = NoThread
    /\ exited = FALSE

SpecBox == InitBox /\ [][NextWord]_vars

(***************************************************************************)
(* generateSolutions called with the puzzle of the worked example, two     *)
(* words, and a table given as it is: the table of the three words of the  *)
(* example, or a table of two words that do solve the puzzle.              *)
(***************************************************************************)
\* the words of a list, filed under their first char
TableOf(list) ==
    LET RECURSIVE Filed(_)
        Filed(n) == IF n = 0 THEN <<>>
                    ELSE TableInsert(Filed(n - 1), list[n])
    IN  Filed(Len(list))

FixtureTable == TableOf(FixtureDictionary)

SolvableTable ==
    TableOf(<< <<"A", "D", "G", "J", "B", "E", "H">>,
               <<"H", "K", "C", "F", "I", "L">> >>)

FixtureNWords == 2

InitFixture ==
    /\ pcMain = "getNumWords"
    /\ dictionary = FixtureDictionary
    /\ input = FixtureLetters
    /\ letterBox = NewLetterBox(ToUpperString(FixtureLetters))
    /\ wordsStartingWith \in {FixtureTable, SolvableTable}
    /\ nInput = FixtureNWords
    /\ nWords = 0
    /\ order = <<>>
    /\ threads = <<>>
    /\ joined = 0
    /\ stack = <<>>
    /\ result = <<>>
    /\ solutions = <<>>
    /\ solutionsLock = NoThread
    /\ exited = FALSE

NextFixture == GetNumWordsReturn \/ Search

SpecFixture == InitFixture /\ [][NextFixture]_vars

\* Every thread scheduled when it can run: some step of generateSolutions
\* is taken whenever one is possible.
FairSpec == Spec /\ WF_vars(Search)

(***************************************************************************)
(* Definitions the properties are stated with.                             *)
(***************************************************************************)
\* the texts of the words of an entry, and of the whole table
EntryContents(entry) == { entry[i].content : i \in 1..Len(entry) }
FiledUnder(table, c) ==
    IF c \in DOMAIN table THEN EntryContents(table[c]) ELSE {}
TableContents(table) == UNION { EntryContents(table[c]) : c \in DOMAIN table }

LastChar(str) == str[Len(str)]
LettersOf(chain) == UNION { Range(chain[j]) : j \in 1..Len(chain) }
Chained(chain) ==
    \A j \in 1..(Len(chain) - 1) : LastChar(chain[j]) = chain[j + 1][1]

Threads == DOMAIN stack
InCriticalSection(t) ==
    Running(t) /\ Top(t).pc \in {"push", "write", "unlock"}
SearchStarted == pcMain \in {"spawn", "join", "returned"}

\* C1: every Solution in solutions has exactly nWords words, each a word of
\* the table, each word ending with the letter the next one starts with,
\* and the letters of its words are exactly the letters of the puzzle.
C1_Soundness ==
    \A k \in 1..Len(solutions) :
        LET sol == solutions[k]
        IN  /\ Len(sol) = nWords
            /\ \A j \in 1..Len(sol) : sol[j] \in TableContents(wordsStartingWith)
            /\ Chained(sol)
            /\ LettersOf(sol) = GetLetters(letterBox)

\* a two-word solution has been appended
C1_Witness ==
    \E k \in 1..Len(solutions) :
        /\ Len(solutions[k]) = 2
        /\ solutions[k][1] # solutions[k][2]

\* the chains of n words of the table that start under a puzzle letter,
\* are chained and cover the puzzle
ValidChains(table, box, n) ==
    { chain \in [1..n -> TableContents(table)] :
        /\ \E c \in GetLetters(box) : chain[1] \in FiledUnder(table, c)
        /\ Chained(chain)
        /\ LettersOf(chain) = GetLetters(box) }

\* C2: when generateSolutions has returned, every chain of nWords words of
\* the table whose first word is filed under a puzzle letter, whose words
\* are chained and whose letters are the puzzle's is in solutions.
C2_Completeness ==
    pcMain = "returned" =>
        \A chain \in ValidChains(wordsStartingWith, letterBox, nWords) :
            \E k \in 1..Len(solutions) : solutions[k] = chain

\* generateSolutions has returned from a search that had a two-word chain
\* to find
C2_Witness ==
    /\ pcMain = "returned"
    /\ nWords = 2
    /\ ValidChains(wordsStartingWith, letterBox, 2) # {}

\* C3: a thread is inside push_back (or about to unlock) exactly when it
\* owns solutionsLock: two threads are never inside together, every
\* push_back is made by the owner, and the owner is nowhere else in its
\* traversal.
C3_MutualExclusion ==
    /\ \A t \in Threads : InCriticalSection(t) <=> solutionsLock = t
    /\ \A t, u \in Threads :
          InCriticalSection(t) /\ InCriticalSection(u) => t = u

\* a thread waits for the mutex while another is inside push_back
C3_Witness ==
    \E t, u \in Threads :
        /\ Running(t) /\ Top(t).pc = "write"
        /\ Running(u) /\ Top(u).pc = "lock"

\* C4: once generateSolutions has returned, a thread has been started for
\* every puzzle letter and each has finished, and solutions never changes
\* again.
C4_ReturnAfterJoin ==
    /\ [](pcMain = "returned" =>
            /\ Threads = GetLetters(letterBox)
            /\ \A t \in Threads : ~ Running(t))
    /\ [][pcMain = "returned" => solutions' = solutions]_vars

\* generateSolutions has returned solutions of two threads
C4_Witness ==
    /\ pcMain = "returned"
    /\ \E j, k \in 1..Len(solutions) : solutions[j][1][1] # solutions[k][1][1]

(***************************************************************************)
(* The search run on one thread, letter after letter in `order`, each      *)
(* entry in the order of the table: the Solutions in the order found.      *)
(***************************************************************************)
RECURSIVE SequentialRec(_, _, _, _), SequentialLoop(_, _, _, _, _)
SequentialRec(n, last, remaining, chosen) ==
    IF n = 0
    THEN IF remaining = {} THEN <<chosen>> ELSE <<>>
    ELSE IF last \notin DOMAIN wordsStartingWith
         THEN <<>>
         ELSE SequentialLoop(n, last, remaining, chosen, 1)

SequentialLoop(n, last, remaining, chosen, i) ==
    IF i > Len(wordsStartingWith[last]) THEN <<>>
    ELSE LET w == wordsStartingWith[last][i]
             found ==
                IF n = 1 /\ Cardinality(remaining) > w.nUniqueLetters
                THEN <<>>
                ELSE SequentialRec(n - 1, w.content[Len(w.content)],
                                   remaining \ Range(w.content),
                                   Append(chosen, w.content))
         IN  found \o SequentialLoop(n, last, remaining, chosen, i + 1)

RECURSIVE SequentialFrom(_)
SequentialFrom(i) ==
    IF i > Len(order) THEN <<>>
    ELSE SequentialRec(nWords, order[i], GetLetters(letterBox), <<>>)
            \o SequentialFrom(i + 1)

BagOfSeq(s) ==
    [x \in Range(s) |-> Cardinality({ i \in 1..Len(s) : s[i] = x })]

\* C5: whatever the interleaving of the threads, when generateSolutions
\* returns solutions holds the same Solutions, each as many times, as the
\* search run on a single thread finds: only their order depends on the
\* schedule.
C5_Determinism ==
    pcMain = "returned" => BagOfSeq(solutions) = BagOfSeq(SequentialFrom(1))

\* generateSolutions has returned two solutions in the order opposite to
\* the one the threads were started in
C5_Witness ==
    /\ pcMain = "returned"
    /\ Len(solutions) = 2
    /\ \E i, j \in 1..Len(threads) :
          /\ i < j
          /\ solutions[1][1][1] = threads[j]
          /\ solutions[2][1][1] = threads[i]

NoDuplicates(s) == \A i, j \in 1..Len(s) : s[i] = s[j] => i = j

\* C6: no entry of the table holds two Words of the same text, and
\* solutions never holds the same sequence of words twice.
C6_NoDuplicates ==
    /\ \A c \in DOMAIN wordsStartingWith :
          NoDuplicates([i \in 1..Len(wordsStartingWith[c]) |->
                           wordsStartingWith[c][i].content])
    /\ NoDuplicates(solutions)

\* two solutions were found from a dictionary with a repeated line whose
\* word is in the table
C6_Witness ==
    /\ Len(solutions) >= 2
    /\ \E i, j \in 1..Len(dictionary) :
          /\ i # j
          /\ dictionary[i] = dictionary[j]
          /\ dictionary[i] \in TableContents(wordsStartingWith)

\* C7: the recursion of every thread is at most nWords calls below its
\* first, the budget falling by one per call, and, every runnable thread
\* being scheduled, a generateSolutions that was called returns.
C7_Termination ==
    /\ [](\A t \in Threads :
            /\ Len(stack[t]) <= nWords + 1
            /\ \A d \in 1..Len(stack[t]) : stack[t][d].nWords = nWords - (d - 1))
    /\ (pcMain = "spawn") ~> (pcMain = "returned")

\* a thread is at the bottom of a recursion of nWords = 2 calls
C7_Witness ==
    \E t \in Threads :
        /\ Len(stack[t]) = 3
        /\ Top(t).nWords = 0
        /\ nWords = 2

LetterBoxBuilt == pcMain # "getLetters"

\* two chars lie on one wall of the box
LieOnSameWall(box, a, b) ==
    \E w \in 1..Len(box.letterWalls) :
        a \in Range(box.letterWalls[w]) /\ b \in Range(box.letterWalls[w])

\* C8: canMakeWord is false of a word of fewer than 3 chars, false of a
\* word with a char that is no puzzle letter, false of a word with two
\* adjacent chars on one wall, and true of every other word.
C8_CanMakeWord ==
    LetterBoxBuilt =>
        \A k \in 1..Len(dictionary) :
            LET word == dictionary[k]
                tooShort == Len(word) < 3
                foreign  == \E i \in 1..Len(word) :
                                word[i] \notin Range(ToUpperString(input))
                sameWall == \E i \in 1..(Len(word) - 1) :
                                LieOnSameWall(letterBox, word[i], word[i + 1])
            IN  CanMakeWord(letterBox, word)
                    <=> ~ (tooShort \/ foreign \/ sameWall)

\* a word of exactly 3 chars went into the table of the puzzle with walls
\* of two letters
C8_Witness ==
    /\ pcMain = "getNumWords"
    /\ NumLetters(letterBox) = 8
    /\ Len(dictionary[1]) = 3
    /\ dictionary[1] \in TableContents(wordsStartingWith)

\* C9: a LetterBox is only ever built from a line whose length is a
\* positive multiple of kNumWalls; no other line gets past the letters
\* prompt to the word filter or the search.
C9_InvalidPuzzleRejected ==
    LetterBoxBuilt => (Len(input) > 0 /\ Len(input) % kNumWalls = 0)

\* C10: at the word-count prompt the number read is accepted, and the
\* search called with it, exactly when 1 <= n <= numLetters() / 3; every
\* other number is asked for again; so the search only ever runs with such
\* an nWords.
C10_WordCountCheck ==
    /\ [][pcMain = "getNumWords" =>
            LET accepted == /\ 1 <= nInput
                            /\ nInput <= Cardinality(GetLetters(letterBox)) \div 3
            IN  /\ pcMain' = "spawn" <=> accepted
                /\ pcMain' = "getNumWords" <=> ~ accepted
                /\ pcMain' = "spawn" => nWords' = nInput]_vars
    /\ [](SearchStarted =>
            /\ 1 <= nWords
            /\ nWords <= Cardinality(GetLetters(letterBox)) \div 3)

\* the search was called with the largest number accepted, 8 / 3 = 2
C10_Witness ==
    /\ SearchStarted
    /\ Cardinality(GetLetters(letterBox)) = 8
    /\ nWords = 2

(***************************************************************************)
(* The LetterBox constructor.                                              *)
(***************************************************************************)
PairwiseDistinct(str) ==
    \A i, j \in 1..Len(str) : str[i] = str[j] => i = j

\* the walls, by their index, that hold the letter
WallsHolding(box, c) ==
    { w \in 1..Len(box.letterWalls) : c \in Range(box.letterWalls[w]) }

\* C11: a LetterBox constructed from a string of 4k pairwise distinct
\* letters, k >= 1, has exactly 4 walls of k letters, wall w being the w-th
\* run of k letters of the string in their order; every letter of the
\* string is on exactly one wall, which is the wall it maps to; no two
\* walls share a letter; and the letters of the walls are the letters of
\* the puzzle.
C11_WallsPartition ==
    LET str == ToUpperString(input)
        k   == Len(str) \div 4
    IN  (/\ LetterBoxBuilt
         /\ Len(str) = 4 * k
         /\ k >= 1
         /\ PairwiseDistinct(str))
        => /\ Len(letterBox.letterWalls) = 4
           /\ \A w \in 1..4 :
                 /\ Len(letterBox.letterWalls[w]) = k
                 /\ \A i \in 1..k :
                       letterBox.letterWalls[w][i] = str[(w - 1) * k + i]
           /\ DOMAIN letterBox.letterToWall = Range(str)
           /\ \A c \in Range(str) :
                 /\ Cardinality(WallsHolding(letterBox, c)) = 1
                 /\ WallsHolding(letterBox, c) = {letterBox.letterToWall[c]}
           /\ \A v, w \in 1..4 :
                 v # w => Range(letterBox.letterWalls[v])
                            \cap Range(letterBox.letterWalls[w]) = {}
           /\ UNION { Range(letterBox.letterWalls[w]) : w \in 1..4 }
                 = GetLetters(letterBox)
           /\ GetLetters(letterBox) = Range(str)

\* a puzzle of two letters a wall, typed out of order, has been constructed
C11_Witness ==
    /\ LetterBoxBuilt
    /\ input = <<"H", "B", "C", "D", "E", "F", "G", "A">>
    /\ Len(letterBox.letterWalls) = 4
    /\ letterBox.letterToWall["H"] = 1
    /\ letterBox.letterToWall["A"] = 4

(***************************************************************************)
(* The word table.                                                         *)
(***************************************************************************)
\* buildFilteredWordList has returned and the search has yet to start
TableBuilt == pcMain = "getNumWords"

\* the chars of the dictionary and of the puzzle
CharsInPlay == UNION { Range(dictionary[l]) : l \in 1..Len(dictionary) }
                 \cup Range(input) \cup Range(ToUpperString(input))

\* the number of places of str that hold a char no earlier place holds
DistinctChars(str) ==
    Cardinality({ i \in 1..Len(str) : \A j \in 1..(i - 1) : str[j] # str[i] })

\* C12: when buildFilteredWordList has returned, a line of the dictionary
\* is in the table under the char c if and only if canMakeWord accepts it
\* and its first char is c; the table has no other key and no other word;
\* no entry holds two Words of the same text; and the nUniqueLetters of
\* every Word is the number of distinct chars of its text.
C12_TableContract ==
    TableBuilt =>
        /\ \A l \in 1..Len(dictionary) : \A c \in CharsInPlay :
              dictionary[l] \in FiledUnder(wordsStartingWith, c)
                <=> (CanMakeWord(letterBox, dictionary[l]) /\ dictionary[l][1] = c)
        /\ DOMAIN wordsStartingWith \subseteq CharsInPlay
        /\ TableContents(wordsStartingWith) \subseteq Range(dictionary)
        /\ \A c \in DOMAIN wordsStartingWith :
              LET entry == wordsStartingWith[c]
              IN  /\ entry # <<>>
                  /\ \A i, j \in 1..Len(entry) :
                        entry[i].content = entry[j].content => i = j
                  /\ \A i \in 1..Len(entry) :
                        entry[i].nUniqueLetters = DistinctChars(entry[i].content)

\* a table built from a dictionary with a line twice, lines the puzzle
\* cannot make, and a word with a letter twice
C12_Witness ==
    /\ TableBuilt
    /\ Len(dictionary) >= 5
    /\ dictionary[2] = dictionary[3]
    /\ "A" \in DOMAIN wordsStartingWith
    /\ "B" \in DOMAIN wordsStartingWith
    /\ dictionary[1] \notin TableContents(wordsStartingWith)
    /\ \E i \in 1..Len(wordsStartingWith["B"]) :
          /\ wordsStartingWith["B"][i].content = <<"B", "D", "F", "D">>
          /\ wordsStartingWith["B"][i].nUniqueLetters = 3

(***************************************************************************)
(* The worked example: the puzzle ABCDEFGHIJKL and the words ABD, DGJ, JCK.*)
(***************************************************************************)
FixtureBuilt == LetterBoxBuilt /\ ToUpperString(input) = FixtureLetters

FixtureWalls ==
    << {"A", "B", "C"}, {"D", "E", "F"}, {"G", "H", "I"}, {"J", "K", "L"} >>

\* C13 as stated: in the puzzle built from ABCDEFGHIJKL canMakeWord accepts
\* each of ABD, DGJ and JCK.
C13_AllThreeAccepted ==
    FixtureBuilt =>
        \A l \in 1..Len(FixtureDictionary) :
            CanMakeWord(letterBox, FixtureDictionary[l])

\* C13: in the puzzle built from ABCDEFGHIJKL the walls are {A,B,C},
\* {D,E,F}, {G,H,I} and {J,K,L}; canMakeWord accepts DGJ and JCK and
\* rejects ABD, whose letters A and B are next to each other and on the
\* same wall; the table built from the three words holds DGJ and JCK only.
C13_FixtureWords ==
    FixtureBuilt =>
        /\ [w \in 1..4 |-> Range(letterBox.letterWalls[w])] = FixtureWalls
        /\ CanMakeWord(letterBox, <<"D", "G", "J">>)
        /\ CanMakeWord(letterBox, <<"J", "C", "K">>)
        /\ ~ CanMakeWord(letterBox, <<"A", "B", "D">>)
        /\ OnSameWall(letterBox, "A", "B")
        /\ (TableBuilt /\ dictionary = FixtureDictionary) =>
              /\ DOMAIN wordsStartingWith = {"D", "J"}
              /\ TableContents(wordsStartingWith)
                    = {<<"D", "G", "J">>, <<"J", "C", "K">>}

\* the table of the worked example has been built from the three words
C13_Witness ==
    /\ FixtureBuilt
    /\ TableBuilt
    /\ dictionary = FixtureDictionary
    /\ "D" \in DOMAIN wordsStartingWith

\* generateSolutions runs, or has run, on the puzzle, the three words and
\* the word count of the worked example
FixtureSearch ==
    /\ SearchStarted
    /\ GetLetters(letterBox) = Range(FixtureLetters)
    /\ wordsStartingWith = FixtureTable
    /\ nWords = FixtureNWords

\* C14: for the puzzle ABCDEFGHIJKL, the table of ABD, DGJ and JCK, each
\* under its first letter, and nWords = 2, no chain of two words of the
\* table covers the twelve letters, and solutions is empty throughout the
\* search and when generateSolutions returns.
C14_FixtureEmpty ==
    FixtureSearch =>
        /\ {c \in DOMAIN wordsStartingWith :
              EntryContents(wordsStartingWith[c]) # {}} = {"A", "D", "J"}
        /\ TableContents(wordsStartingWith) = Range(FixtureDictionary)
        /\ ValidChains(wordsStartingWith, letterBox, nWords) = {}
        /\ solutions = <<>>

\* generateSolutions has returned from the worked example, every thread
\* having run and the threads of A and D having tried their one word
C14_Witness ==
    /\ FixtureSearch
    /\ pcMain = "returned"
    /\ Cardinality(DOMAIN stack) = 12
    /\ result["A"] = << <<"A", "B", "D">>, <<>> >>
    /\ result["D"] = << <<"D", "G", "J">>, <<>> >>

(***************************************************************************)
(* The search without the test that skips a last word: the Solutions found *)
(* on one thread when every word of an entry is tried.                     *)
(***************************************************************************)
RECURSIVE UnprunedRec(_, _, _, _), UnprunedLoop(_, _, _, _, _)
UnprunedRec(n, last, remaining, chosen) ==
    IF n = 0
    THEN IF remaining = {} THEN <<chosen>> ELSE <<>>
    ELSE IF last \notin DOMAIN wordsStartingWith
         THEN <<>>
         ELSE UnprunedLoop(n, last, remaining, chosen, 1)

UnprunedLoop(n, last, remaining, chosen, i) ==
    IF i > Len(wordsStartingWith[last]) THEN <<>>
    ELSE LET w == wordsStartingWith[last][i]
         IN  UnprunedRec(n - 1, w.content[Len(w.content)],
                         remaining \ Range(w.content),
                         Append(chosen, w.content))
                \o UnprunedLoop(n, last, remaining, chosen, i + 1)

RECURSIVE UnprunedFrom(_)
UnprunedFrom(i) ==
    IF i > Len(order) THEN <<>>
    ELSE UnprunedRec(nWords, order[i], GetLetters(letterBox), <<>>)
            \o UnprunedFrom(i + 1)

\* the frames of the threads that are in their for loop
LoopFrames ==
    UNION { { stack[t][d] :
                d \in { e \in 1..Len(stack[t]) : stack[t][e].pc = "loop" } }
            : t \in Threads }

\* C15: a word the search skips as a last word would leave a letter of the
\* puzzle uncovered had it been tried, and when generateSolutions returns
\* the set of the Solutions in solutions is the set the search finds with
\* the skipping test taken out.
C15_PruneIsOptimisation ==
    /\ \A frame \in LoopFrames : \A i \in frame.todo :
          LET word == wordsStartingWith[frame.last][i]
          IN  Pruned(frame, word) =>
                  /\ frame.nWords = 1
                  /\ frame.remaining \ Range(word.content) # {}
    /\ pcMain = "returned" => Range(solutions) = Range(UnprunedFrom(1))

\* a thread is about to skip a last word while another word of the same
\* table, with as many letters as are left, fails only the final test
C15_Witness ==
    /\ \E frame \in LoopFrames : \E i \in frame.todo :
          Pruned(frame, wordsStartingWith[frame.last][i])
    /\ \E c \in DOMAIN wordsStartingWith :
          \E i \in 1..Len(wordsStartingWith[c]) :
             wordsStartingWith[c][i].content = <<"B", "D", "F", "D">>

(***************************************************************************)
(* The Solution a thread appends.                                          *)
(***************************************************************************)
\* the words of the current turns of the for loops of the calls of the
\* thread that have made a call, outermost first
PathOf(t) == [d \in 1..(Len(stack[t]) - 1) |-> stack[t][d].word]

\* C16: every step that changes solutions appends one Solution to it, on
\* behalf of a thread whose innermost call has nWords = 0 and remaining
\* empty; the Solution has nWords words, none empty, and its d-th word is
\* the word of the current turn of the loop of the thread's d-th call.
C16_AppendsCurrentPath ==
    [][ solutions' # solutions =>
          \E t \in Threads :
              /\ Running(t)
              /\ Top(t).nWords = 0
              /\ Top(t).remaining = {}
              /\ Len(stack[t]) = nWords + 1
              /\ \A d \in 1..nWords :
                    /\ stack[t][d].pc = "loop"
                    /\ stack[t][d].nWords = (nWords - d) + 1
                    /\ PathOf(t)[d] # <<>>
              /\ solutions' = Append(solutions, PathOf(t)) ]_vars

\* a thread has appended ACEGB, BDFH after it had tried BDFD, which left
\* its text in the second slot of result
C16_Witness ==
    \E t \in Threads :
        /\ Running(t)
        /\ Top(t).pc = "unlock"
        /\ Len(stack[t]) = 3
        /\ stack[t][2].todo = {}
        /\ Len(wordsStartingWith[stack[t][2].last]) = 2
        /\ solutions # <<>>
        /\ solutions[Len(solutions)] =
              << <<"A", "C", "E", "G", "B">>, <<"B", "D", "F", "H">> >>

(***************************************************************************)
(* What the search writes.                                                 *)
(***************************************************************************)
\* the step leaves the remaining, the result and the calls of thread t alone
PrivateUnchanged(t) == stack'[t] = stack[t] /\ result'[t] = result[t]

\* C17: from the start of generateSolutions on, no step changes letterBox
\* or wordsStartingWith: the table keeps its keys, a key looked up and not
\* found among them, and its entries; a call for a letter that is not a
\* key makes no further call and appends nothing; and a step changes the
\* calls and the result of at most one thread, so that solutions, under
\* its mutex, is all the threads share for writing.
C17_SearchWritesOnlySolutions ==
    [][ SearchStarted =>
          /\ letterBox' = letterBox
          /\ wordsStartingWith' = wordsStartingWith
          /\ DOMAIN wordsStartingWith' = DOMAIN wordsStartingWith
          /\ \A t \in Threads :
                (/\ stack[t] # <<>>
                 /\ Top(t).pc = "entry"
                 /\ Top(t).last \notin DOMAIN wordsStartingWith
                 /\ ~ PrivateUnchanged(t))
                => /\ stack'[t] = <<>>
                   /\ solutions' = solutions
          /\ \A t \in Threads :
                (/\ stack[t] # <<>>
                 /\ Len(stack'[t]) > Len(stack[t]))
                => /\ stack'[t][Len(stack'[t])].nWords = 0
                      \/ stack'[t][Len(stack'[t])].last
                            \in DOMAIN wordsStartingWith
                   /\ solutions' = solutions
          /\ \A t, u \in Threads :
                t # u => PrivateUnchanged(t) \/ PrivateUnchanged(u) ]_vars

\* a thread started on a letter that is not a key has ended, and another
\* has come back to its loop from a word whose last letter is not a key,
\* with a word still to choose after it
C17_Witness ==
    /\ \E t \in Threads :
          t \notin DOMAIN wordsStartingWith /\ stack[t] = <<>>
    /\ \E t \in Threads :
          /\ Running(t)
          /\ Top(t).pc = "loop"
          /\ Top(t).nWords > 1
          /\ Top(t).word # <<>>
          /\ LastChar(Top(t).word) \notin DOMAIN wordsStartingWith
    /\ solutions = <<>>

(***************************************************************************)
(* Word::operator[] in the search.                                         *)
(***************************************************************************)
\* C18: when every word of the table is a word canMakeWord accepts, hence
\* of three chars at least, exit(0) is never called: every index the
\* search gives to Word::operator[], the size of a word of the table less
\* one, is at least 0 and less than the size of the word.
C18_NoOutOfRangeAccess ==
    (\A str \in TableContents(wordsStartingWith) :
        CanMakeWord(letterBox, str))
    => /\ exited = FALSE
       /\ \A c \in DOMAIN wordsStartingWith :
             \A i \in 1..Len(wordsStartingWith[c]) :
                LET size == Len(wordsStartingWith[c][i].content)
                IN  /\ size >= 3
                    /\ 0 <= size - 1
                    /\ size - 1 < size
                    /\ WordIndexInRange(wordsStartingWith[c][i], size - 1)

\* a thread has taken the last char of a word and is in the call it made
\* with it, and the program has not exited
C18_Witness ==
    /\ exited = FALSE
    /\ \E t \in Threads :
          /\ Len(stack[t]) >= 2
          /\ stack[t][1].word # <<>>
          /\ stack[t][2].last = LastChar(stack[t][1].word)

=============================================================================
